---- MODULE Spec2Model ----
(***************************************************************************)
(* Examine (cosmic-utils/examine): src/src/app.rs.                         *)
(*                                                                         *)
(* AppModel::init spawns four diagnostic tools and stores their stdout (or *)
(* an error placeholder); AppModel::view renders the active page from the  *)
(* stored text (tool pages) or from the OS metadata file (Distribution).   *)
(*                                                                         *)
(* Text is a sequence of one-character strings.  "E" stands for the        *)
(* localized phrase fl!("error-occurred"), "X" for a byte that is not      *)
(* valid UTF-8.                                                            *)
(***************************************************************************)
EXTENDS Integers, Sequences, FiniteSets, TLC

VARIABLES
    pc,                 \* position of the process: init steps, running, panicked
    nav,                \* AppModel.nav: [items, active]
    context_page,       \* AppModel.context_page
    show_context,       \* core.window.show_context
    context_title,      \* title set by set_context_title
    window_title,       \* title set by set_window_title
    config,             \* AppModel.config
    dmidecode,          \* AppModel.dmidecode : Option<String>
    lscpu,              \* AppModel.lscpu     : Option<String>
    lspci,              \* AppModel.lspci     : Option<String>
    lsusb,              \* AppModel.lsusb     : Option<String>
    content,            \* what the last call of view() returned
    programs,           \* environment: program name -> Option<stdout bytes>
    is_flatpak,         \* environment: /.flatpak-info exists
    os_release,         \* environment: Option<the OS metadata file>
    spawned,            \* observer: program name -> number of spawn attempts
    os_release_reads    \* observer: number of reads of the OS metadata file

vars == <<pc, nav, context_page, show_context, context_title, window_title,
          config, dmidecode, lscpu, lspci, lsusb, content, programs,
          is_flatpak, os_release, spawned, os_release_reads>>

app_vars == <<nav, context_page, show_context, context_title, window_title,
              config, dmidecode, lscpu, lspci, lsusb>>

env_vars == <<programs, is_flatpak, os_release>>

-----------------------------------------------------------------------------
(* Bounds *)

\* longest tool output enumerated by ParseSpec
MaxLen == 5

\* most keys an enumerated OS metadata file holds in DistSpec
MaxFields == 2

\* cap on the observer counter of metadata-file reads
MaxReads == 2

-----------------------------------------------------------------------------
(* Option, text *)

None == <<>>

Some(x) == <<x>>

NL == "\n"

Chars == {"a", ":", " ", NL, "E"}

InvalidByte == "X"

Strings(n) == UNION {[1..k -> Chars] : k \in 0..n}

\* str::starts_with
StartsWith(s, prefix) ==
    /\ Len(s) >= Len(prefix)
    /\ SubSeq(s, 1, Len(prefix)) = prefix

\* String::from_utf8(..).is_ok(): no byte breaks the UTF-8 encoding
ValidUtf8(bytes) == \A i \in 1..Len(bytes) : bytes[i] # InvalidByte

RECURSIVE LinesAcc(_, _, _)
LinesAcc(s, cur, acc) ==
    IF s = <<>>
    THEN IF cur = <<>> THEN acc ELSE Append(acc, cur)
    ELSE IF Head(s) = NL
         THEN LinesAcc(Tail(s), <<>>, Append(acc, cur))
         ELSE LinesAcc(Tail(s), Append(cur, Head(s)), acc)

\* str::lines: split at every newline; a trailing newline does not start
\* a further (empty) line (Chars holds no carriage return, which lines
\* would strip before a newline)
Lines(s) == LinesAcc(s, <<>>, <<>>)

\* positions at which delim occurs in line
Occurrences(line, delim) ==
    {i \in 1..(Len(line) - Len(delim) + 1) :
        SubSeq(line, i, i + Len(delim) - 1) = delim}

Min(S) == CHOOSE x \in S : \A y \in S : x <= y

\* the text before and after the occurrence of delim at position i
SplitAt(line, delim, i) ==
    [prefix |-> SubSeq(line, 1, i - 1),
     suffix |-> SubSeq(line, i + Len(delim), Len(line))]

Max(S) == CHOOSE x \in S : \A y \in S : x >= y

\* faulty variant: the split is made at the last occurrence (rsplit_once)
SplitOnceLast(line, delim) ==
    IF Occurrences(line, delim) = {}
    THEN None
    ELSE Some(SplitAt(line, delim, Max(Occurrences(line, delim))))

\* str::split_once: None without the delimiter, else the text before and
\* after its first occurrence
SplitOnce(line, delim) ==
    IF Occurrences(line, delim) = {}
    THEN None
    ELSE Some(SplitAt(line, delim, Min(Occurrences(line, delim))))

-----------------------------------------------------------------------------
(* Localization (i18n/*.ftl, read through fl!) *)

\* fl!("error-occurred")
FlErrorOccurred == <<"E">>

\* fl!("error-occurred-with-msg", error = e)
FlErrorOccurredWithMsg(e) == FlErrorOccurred \o <<":", " ">> \o e

\* fl!("app-title")
FlAppTitle == <<"app-title">>

\* fl!("about")
FlAbout == <<"about">>

-----------------------------------------------------------------------------
(* Environment: the programs on PATH *)

DmidecodeCommand == "dmidecode -t baseboard"

ToolCommands == {DmidecodeCommand, "lscpu", "lspci", "lsusb"}

ProgramNames == ToolCommands \cup {"dmidecode"}

\* io::Error::to_string() of a program that is not found
NotFoundText == <<"n", "o", "t", " ", "f", "o", "u", "n", "d">>

\* the stdout a program of the lifecycle specification may write
StdoutSamples ==
    { <<"a", ":", " ", "a">>,
      <<"a", ":", "a", NL>>,
      <<"E", "a", ":", " ", "a", NL, "a">>,
      <<"a", ":", " ", InvalidByte>> }

\* std::process::Command::new(program).output(): the program is looked up
\* under the whole string it is given; nothing splits it into words
CommandOutput(program) ==
    IF programs[program] = None
    THEN [is_ok |-> FALSE, stdout |-> <<>>, err |-> NotFoundText]
    ELSE [is_ok |-> TRUE, stdout |-> programs[program][1], err |-> <<>>]

-----------------------------------------------------------------------------
(* Navigation model (cosmic nav_bar::Model as app.rs uses it) *)

Pages == {"Distribution", "Motherboard", "Processor", "PCIs", "USBs"}

ToolPages == Pages \ {"Distribution"}

NavEmpty == [items |-> <<>>, active |-> None]

\* nav.insert().text(text).data::<Page>(page)
NavInsert(n, text, page) ==
    [n EXCEPT !.items = Append(@, [text |-> text, page |-> page])]

\* the id of the entry inserted last
NavLastId(n) == Len(n.items)

\* nav.activate(id)
NavActivate(n, id) ==
    IF id \in 1..Len(n.items) THEN [n EXCEPT !.active = Some(id)] ELSE n

\* nav.data::<Page>(nav.active())
NavActivePage(n) ==
    IF n.active = None THEN None ELSE Some(n.items[n.active[1]].page)

\* nav.text(nav.active())
NavActiveText(n) ==
    IF n.active = None THEN None ELSE Some(n.items[n.active[1]].text)

\* init, the five nav.insert() chains: Distribution and Motherboard both
\* end in .activate()
InitNav ==
    LET n1 == NavInsert(NavEmpty, <<"distribution">>, "Distribution")
        a1 == NavActivate(n1, NavLastId(n1))
        n2 == NavInsert(a1, <<"motherboard">>, "Motherboard")
        a2 == NavActivate(n2, NavLastId(n2))
        n3 == NavInsert(a2, <<"processor">>, "Processor")
        n4 == NavInsert(n3, <<"pci-devices">>, "PCIs")
    IN  NavInsert(n4, <<"usb-devices">>, "USBs")

\* update_title: the title handed to set_window_title; " - " stands for
\* the dash the source puts between the two texts
TitleOf(n) ==
    IF NavActiveText(n) = None
    THEN FlAppTitle
    ELSE FlAppTitle \o <<" - ">> \o NavActiveText(n)[1]

-----------------------------------------------------------------------------
(* init: one tool after the other *)

NoContent == [kind |-> "none", text |-> <<>>, rows |-> <<>>]

\* the state init has built before it spawns the first tool
InitApp ==
    /\ nav = InitNav
    /\ context_page = "About"
    /\ show_context = FALSE
    /\ context_title = <<>>
    /\ window_title = <<>>
    /\ config = "default"
    /\ dmidecode = None
    /\ lscpu = None
    /\ lspci = None
    /\ lsusb = None
    /\ content = NoContent
    /\ spawned = [p \in ToolCommands |-> 0]
    /\ os_release_reads = 0

\* faulty variant: the placeholder does not carry the error's message
CapturedDropMessage(cmd) ==
    IF cmd.is_ok
    THEN IF ValidUtf8(cmd.stdout)
         THEN [panics |-> FALSE, field |-> Some(cmd.stdout)]
         ELSE [panics |-> TRUE, field |-> None]
    ELSE [panics |-> FALSE, field |-> Some(FlErrorOccurred)]

\* what init does with the result of one .output(): the stdout as text, the
\* error placeholder, or a panic of String::from_utf8(..).unwrap()
Captured(cmd) ==
    IF cmd.is_ok
    THEN IF ValidUtf8(cmd.stdout)
         THEN [panics |-> FALSE, field |-> Some(cmd.stdout)]
         ELSE [panics |-> TRUE, field |-> None]
    ELSE [panics |-> FALSE, field |-> Some(FlErrorOccurredWithMsg(cmd.err))]

Spawn(program) == spawned' = [spawned EXCEPT ![program] = @ + 1]

SpawnDmidecode ==
    /\ pc = "dmidecode"
    /\ Spawn(DmidecodeCommand)
    /\ LET c == Captured(CommandOutput(DmidecodeCommand))
       IN  IF c.panics
           THEN pc' = "panicked" /\ dmidecode' = dmidecode
           ELSE pc' = "lscpu" /\ dmidecode' = c.field
    /\ UNCHANGED <<nav, context_page, show_context, context_title,
                   window_title, config, lscpu, lspci, lsusb, content,
                   env_vars, os_release_reads>>

SpawnLscpu ==
    /\ pc = "lscpu"
    /\ Spawn("lscpu")
    /\ LET c == Captured(CommandOutput("lscpu"))
       IN  IF c.panics
           THEN pc' = "panicked" /\ lscpu' = lscpu
           ELSE pc' = "lspci" /\ lscpu' = c.field
    /\ UNCHANGED <<nav, context_page, show_context, context_title,
                   window_title, config, dmidecode, lspci, lsusb, content,
                   env_vars, os_release_reads>>

SpawnLspci ==
    /\ pc = "lspci"
    /\ Spawn("lspci")
    /\ LET c == Captured(CommandOutput("lspci"))
       IN  IF c.panics
           THEN pc' = "panicked" /\ lspci' = lspci
           ELSE pc' = "lsusb" /\ lspci' = c.field
    /\ UNCHANGED <<nav, context_page, show_context, context_title,
                   window_title, config, dmidecode, lscpu, lsusb, content,
                   env_vars, os_release_reads>>

SpawnLsusb ==
    /\ pc = "lsusb"
    /\ Spawn("lsusb")
    /\ LET c == Captured(CommandOutput("lsusb"))
       IN  IF c.panics
           THEN pc' = "panicked" /\ lsusb' = lsusb
           ELSE pc' = "update_title" /\ lsusb' = c.field
    /\ UNCHANGED <<nav, context_page, show_context, context_title,
                   window_title, config, dmidecode, lscpu, lspci, content,
                   env_vars, os_release_reads>>

\* init's last statements: update_title, then init returns
InitReturn ==
    /\ pc = "update_title"
    /\ window_title' = TitleOf(nav)
    /\ pc' = "running"
    /\ UNCHANGED <<nav, context_page, show_context, context_title, config,
                   dmidecode, lscpu, lspci, lsusb, content, env_vars,
                   spawned, os_release_reads>>

-----------------------------------------------------------------------------
(* The OS metadata file (etc_os_release::OsRelease as view uses it) *)

\* a file is a function from the keys it holds to their values (text)
ReadKeys ==
    {"PRETTY_NAME", "NAME", "VERSION", "VERSION_ID", "ID", "ID_LIKE",
     "VERSION_CODENAME", "BUILD_ID", "IMAGE_ID", "IMAGE_VERSION",
     "VENDOR_NAME", "ANSI_COLOR", "LOGO", "CPE_NAME", "HOME_URL",
     "SUPPORT_URL", "DOCUMENTATION_URL", "BUG_REPORT_URL",
     "PRIVACY_POLICY_URL", "SUPPORT_END", "VARIANT", "VARIANT_ID",
     "DEFAULT_HOSTNAME", "ARCHITECTURE", "SYSEXT_LEVEL", "SYSEXT_SCOPE",
     "CONFEXT_LEVEL", "CONFEXT_SCOPE", "PORTABLE_PREFIXES"}

FileKeys == ReadKeys \cup {"VENDOR_URL"}

UrlSample == <<"u", ":", "u">>

DateSample == <<"1", "-", "1", "-", "1">>

FieldValues == { <<>>, <<"v">>, <<"v", " ", "w">>, UrlSample, DateSample }

\* The characters of a value are ASCII. char::is_whitespace on them: space,
\* tab, line feed, carriage return, form feed (U+000B and the white space
\* beyond ASCII are outside the character set of the model)
WhiteSpace == {" ", "\t", "\n", "\r", "\f"}

LowerChars ==
    <<"a", "b", "c", "d", "e", "f", "g", "h", "i", "j", "k", "l", "m",
      "n", "o", "p", "q", "r", "s", "t", "u", "v", "w", "x", "y", "z">>

UpperChars ==
    <<"A", "B", "C", "D", "E", "F", "G", "H", "I", "J", "K", "L", "M",
      "N", "O", "P", "Q", "R", "S", "T", "U", "V", "W", "X", "Y", "Z">>

DigitChars == <<"0", "1", "2", "3", "4", "5", "6", "7", "8", "9">>

IsDigit(c) == \E i \in 1..Len(DigitChars) : DigitChars[i] = c

IsAlpha(c) ==
    \E i \in 1..Len(LowerChars) : LowerChars[i] = c \/ UpperChars[i] = c

\* char::to_ascii_lowercase
ToLower(c) ==
    IF \E i \in 1..Len(UpperChars) : UpperChars[i] = c
    THEN LowerChars[CHOOSE i \in 1..Len(UpperChars) : UpperChars[i] = c]
    ELSE c

RECURSIVE TrimC0Start(_)
\* Url::parse drops the C0 controls and spaces at the head of its input
TrimC0Start(s) ==
    IF s # <<>> /\ Head(s) \in WhiteSpace THEN TrimC0Start(Tail(s)) ELSE s

RECURSIVE TrimC0End(_)
\* ... and at its end
TrimC0End(s) ==
    IF s # <<>> /\ s[Len(s)] \in WhiteSpace
    THEN TrimC0End(SubSeq(s, 1, Len(s) - 1))
    ELSE s

\* ... and every tab, line feed and carriage return inside it
StripTabNewline(s) == SelectSeq(s, LAMBDA c : c \notin {"\t", "\n", "\r"})

RECURSIVE EncodeControls(_)
\* the opaque path keeps its characters, a C0 control percent-encoded
EncodeControls(s) ==
    IF s = <<>> THEN <<>>
    ELSE (IF Head(s) = "\f" THEN <<"%", "0", "C">> ELSE <<Head(s)>>)
         \o EncodeControls(Tail(s))

\* url::Url::parse(value) for a value that has no base: a scheme (a letter,
\* then letters, digits, "+", "-", "."), a colon, and the rest as an opaque
\* path; None is the Err. Defined for the values made of letters, digits,
\* "+", "-", ".", ":" and white space whose scheme is none of the special
\* schemes (ftp, file, http, https, ws, wss); host, query and fragment
\* parsing ("/", "?", "#") are outside the model.
ParseUrl(value) ==
    LET s == StripTabNewline(TrimC0End(TrimC0Start(value)))
        stops == {k \in 1..Len(s) :
                    ~(IsAlpha(s[k]) \/ IsDigit(s[k]) \/ s[k] \in {"+", "-", "."})}
    IN  IF s = <<>> \/ ~IsAlpha(s[1]) \/ stops = {} THEN None
        ELSE LET k == Min(stops)
             IN  IF s[k] # ":" THEN None
                 ELSE Some([scheme |-> [i \in 1..(k - 1) |-> ToLower(s[i])],
                            path |-> EncodeControls(SubSeq(s, k + 1, Len(s)))])

\* some_url() is Ok(Some(_))
ParsesAsUrl(value) == ParseUrl(value) # None

\* Url::to_string: the serialization of the parsed URL
FormatUrl(url) == url.scheme \o <<":">> \o url.path

DigitValue(c) == (CHOOSE i \in 1..Len(DigitChars) : DigitChars[i] = c) - 1

RECURSIVE NumberOf(_, _)
\* the number a run of decimal digits writes, most significant first
NumberOf(digits, acc) ==
    IF digits = <<>> THEN acc
    ELSE NumberOf(Tail(digits), 10 * acc + DigitValue(Head(digits)))

RECURSIVE SkipSpaces(_)
\* a numeric item of the date format skips the white space before it
SkipSpaces(s) ==
    IF s # <<>> /\ Head(s) \in WhiteSpace THEN SkipSpaces(Tail(s)) ELSE s

\* a numeric item: the longest run of min..max digits at the head of s
ScanNumber(s, min, max) ==
    LET lim == IF Len(s) < max THEN Len(s) ELSE max
        n == Min({k \in 0..lim : k = lim \/ ~IsDigit(s[k + 1])})
    IN  IF n < min THEN None
        ELSE Some([value |-> NumberOf(SubSeq(s, 1, n), 0),
                   rest |-> SubSeq(s, n + 1, Len(s))])

\* the year item: four digits at most, or a sign and any number of digits
ScanYear(s) ==
    IF s # <<>> /\ Head(s) \in {"-", "+"}
    THEN LET r == ScanNumber(Tail(s), 1, Len(s))
         IN  IF r = None THEN None
             ELSE IF Head(s) = "-"
                  THEN Some([value |-> 0 - r[1].value, rest |-> r[1].rest])
                  ELSE r
    ELSE ScanNumber(s, 1, 4)

\* the literal "-" between two items
ScanDash(s) == IF s # <<>> /\ Head(s) = "-" THEN Some(Tail(s)) ELSE None

IsLeapYear(y) == y % 4 = 0 /\ (y % 100 # 0 \/ y % 400 = 0)

DaysInMonth(y, m) ==
    IF m = 2 THEN (IF IsLeapYear(y) THEN 29 ELSE 28)
    ELSE IF m \in {4, 6, 9, 11} THEN 30 ELSE 31

\* the date parser of support_end, year-month-day ("%Y-%m-%d"): the date a
\* value writes, or None when the value is not a date of the calendar
ParseDate(value) ==
    LET y == ScanYear(SkipSpaces(value))
    IN  IF y = None THEN None ELSE
        LET d1 == ScanDash(y[1].rest)
        IN  IF d1 = None THEN None ELSE
            LET m == ScanNumber(SkipSpaces(d1[1]), 1, 2)
            IN  IF m = None THEN None ELSE
                LET d2 == ScanDash(m[1].rest)
                IN  IF d2 = None THEN None ELSE
                    LET d == ScanNumber(SkipSpaces(d2[1]), 1, 2)
                    IN  IF d = None THEN None
                        ELSE IF /\ d[1].rest = <<>>
                                /\ y[1].value \in -262143..262142
                                /\ m[1].value \in 1..12
                                /\ d[1].value \in 1..DaysInMonth(y[1].value, m[1].value)
                             THEN Some([year |-> y[1].value,
                                        month |-> m[1].value,
                                        day |-> d[1].value])
                             ELSE None

\* support_end() is Ok(Some(_))
ParsesAsDate(value) == ParseDate(value) # None

RECURSIVE DigitsOf(_)
\* the decimal digits of a natural number
DigitsOf(n) ==
    IF n < 10 THEN <<DigitChars[n + 1]>>
    ELSE Append(DigitsOf(n \div 10), DigitChars[(n % 10) + 1])

RECURSIVE Pad(_, _)
\* zero padding on the left up to width w
Pad(digits, w) == IF Len(digits) >= w THEN digits ELSE Pad(<<"0">> \o digits, w)

\* NaiveDate::to_string: four-digit year, two-digit month and day; a year
\* outside 0..9999 is written with its sign
FormatDate(date) ==
    LET y == date.year
        year == IF y \in 0..9999 THEN Pad(DigitsOf(y), 4)
                ELSE IF y < 0 THEN <<"-">> \o Pad(DigitsOf(0 - y), 4)
                     ELSE <<"+">> \o Pad(DigitsOf(y), 4)
    IN  year \o <<"-">> \o Pad(DigitsOf(date.month), 2)
             \o <<"-">> \o Pad(DigitsOf(date.day), 2)

RECURSIVE WordsAcc(_, _, _)
WordsAcc(s, cur, acc) ==
    IF s = <<>>
    THEN IF cur = <<>> THEN acc ELSE Append(acc, cur)
    ELSE IF Head(s) \in WhiteSpace
         THEN WordsAcc(Tail(s), <<>>, IF cur = <<>> THEN acc ELSE Append(acc, cur))
         ELSE WordsAcc(Tail(s), Append(cur, Head(s)), acc)

\* str::split_whitespace
SplitWhitespace(s) == WordsAcc(s, <<>>, <<>>)

RECURSIVE Join(_, _)
\* Itertools::join
Join(words, sep) ==
    IF words = <<>> THEN <<>>
    ELSE IF Len(words) = 1 THEN words[1]
    ELSE words[1] \o sep \o Join(Tail(words), sep)

Row(label, value) == [label |-> label, value |-> value]

\* a field whose accessor has a default: the row is always added
RowAlways(f, label, key, default) ==
    <<Row(label, IF key \in DOMAIN f THEN f[key] ELSE default)>>

\* if let Some(x) = osrelease.field() { add }
RowIfSome(f, label, key) ==
    IF key \in DOMAIN f THEN <<Row(label, f[key])>> ELSE <<>>

\* if let Some(mut xs) = osrelease.list_field() { add xs.join(", ") }
RowIfSomeList(f, label, key) ==
    IF key \in DOMAIN f
    THEN <<Row(label, Join(SplitWhitespace(f[key]), <<",", " ">>))>>
    ELSE <<>>

\* version_codename: added only when it is not empty
RowCodename(f, label, key) ==
    IF key \in DOMAIN f /\ f[key] # <<>> THEN <<Row(label, f[key])>> ELSE <<>>

\* if let Ok(Some(url)) = osrelease.some_url() { add }
RowIfUrl(f, label, key) ==
    IF key \in DOMAIN f /\ ParsesAsUrl(f[key])
    THEN <<Row(label, FormatUrl(ParseUrl(f[key])[1]))>>
    ELSE <<>>

\* if let Some(d) = osrelease.support_end().unwrap_or_default().take() { add }
RowIfDate(f, label, key) ==
    IF key \in DOMAIN f /\ ParsesAsDate(f[key])
    THEN <<Row(label, FormatDate(ParseDate(f[key])[1]))>>
    ELSE <<>>

\* the rows of the Distribution page, in the order view adds them
DistributionRows(f) ==
       RowAlways(f, "pretty-name", "PRETTY_NAME", <<"L", "i", "n", "u", "x">>)
    \o RowAlways(f, "name", "NAME", <<"L", "i", "n", "u", "x">>)
    \o RowIfSome(f, "version", "VERSION")
    \o RowIfSome(f, "version-id", "VERSION_ID")
    \o RowAlways(f, "id", "ID", <<"l", "i", "n", "u", "x">>)
    \o RowIfSomeList(f, "id-like", "ID_LIKE")
    \o RowCodename(f, "version-codename", "VERSION_CODENAME")
    \o RowIfSome(f, "build-id", "BUILD_ID")
    \o RowIfSome(f, "image-id", "IMAGE_ID")
    \o RowIfSome(f, "image-version", "IMAGE_VERSION")
    \o RowIfSome(f, "vendor-name", "VENDOR_NAME")
    \o RowIfSome(f, "ansi-color", "ANSI_COLOR")
    \o RowIfSome(f, "logo", "LOGO")
    \o RowIfSome(f, "cpe-name", "CPE_NAME")
    \o RowIfUrl(f, "home-url", "HOME_URL")
    \o RowIfUrl(f, "vendor-url", "SUPPORT_URL")
    \o RowIfUrl(f, "doc-url", "DOCUMENTATION_URL")
    \o RowIfUrl(f, "support-url", "SUPPORT_URL")
    \o RowIfUrl(f, "bug-report-url", "BUG_REPORT_URL")
    \o RowIfUrl(f, "privacy-policy-url", "PRIVACY_POLICY_URL")
    \o RowIfDate(f, "support-end", "SUPPORT_END")
    \o RowIfSome(f, "variant", "VARIANT")
    \o RowIfSome(f, "variant-id", "VARIANT_ID")
    \o RowIfSome(f, "default-hostname", "DEFAULT_HOSTNAME")
    \o RowIfSome(f, "arch", "ARCHITECTURE")
    \o RowIfSome(f, "SYSEXT_LEVEL", "SYSEXT_LEVEL")
    \o RowIfSomeList(f, "SYSEXT_SCOPE", "SYSEXT_SCOPE")
    \o RowIfSome(f, "CONFEXT_LEVEL", "CONFEXT_LEVEL")
    \o RowIfSomeList(f, "CONFEXT_SCOPE", "CONFEXT_SCOPE")
    \o RowIfSomeList(f, "portable-prefixes", "PORTABLE_PREFIXES")

\* the file-system key each row label of the page belongs to
KeyOfLabel ==
    [l \in {"pretty-name", "name", "version", "version-id", "id", "id-like",
            "version-codename", "build-id", "image-id", "image-version",
            "vendor-name", "ansi-color", "logo", "cpe-name", "home-url",
            "vendor-url", "doc-url", "support-url", "bug-report-url",
            "privacy-policy-url", "support-end", "variant", "variant-id",
            "default-hostname", "arch", "SYSEXT_LEVEL", "SYSEXT_SCOPE",
            "CONFEXT_LEVEL", "CONFEXT_SCOPE", "portable-prefixes"} |->
        CASE l = "pretty-name" -> "PRETTY_NAME"
          [] l = "name" -> "NAME"
          [] l = "version" -> "VERSION"
          [] l = "version-id" -> "VERSION_ID"
          [] l = "id" -> "ID"
          [] l = "id-like" -> "ID_LIKE"
          [] l = "version-codename" -> "VERSION_CODENAME"
          [] l = "build-id" -> "BUILD_ID"
          [] l = "image-id" -> "IMAGE_ID"
          [] l = "image-version" -> "IMAGE_VERSION"
          [] l = "vendor-name" -> "VENDOR_NAME"
          [] l = "ansi-color" -> "ANSI_COLOR"
          [] l = "logo" -> "LOGO"
          [] l = "cpe-name" -> "CPE_NAME"
          [] l = "home-url" -> "HOME_URL"
          [] l = "vendor-url" -> "VENDOR_URL"
          [] l = "doc-url" -> "DOCUMENTATION_URL"
          [] l = "support-url" -> "SUPPORT_URL"
          [] l = "bug-report-url" -> "BUG_REPORT_URL"
          [] l = "privacy-policy-url" -> "PRIVACY_POLICY_URL"
          [] l = "support-end" -> "SUPPORT_END"
          [] l = "variant" -> "VARIANT"
          [] l = "variant-id" -> "VARIANT_ID"
          [] l = "default-hostname" -> "DEFAULT_HOSTNAME"
          [] l = "arch" -> "ARCHITECTURE"
          [] l = "SYSEXT_LEVEL" -> "SYSEXT_LEVEL"
          [] l = "SYSEXT_SCOPE" -> "SYSEXT_SCOPE"
          [] l = "CONFEXT_LEVEL" -> "CONFEXT_LEVEL"
          [] l = "CONFEXT_SCOPE" -> "CONFEXT_SCOPE"
          [] l = "portable-prefixes" -> "PORTABLE_PREFIXES"]

-----------------------------------------------------------------------------
(* view *)

Panic == [kind |-> "panic", text |-> <<>>, rows |-> <<>>]

\* widget::text::title1(text)
Title1(text) == [kind |-> "title1", text |-> text, rows |-> <<>>]

\* a list_column of settings::item rows
ListColumn(rows) == [kind |-> "list", text |-> <<>>, rows |-> rows]

\* fl!("no-page")
FlNoPage == <<"no-page">>

\* faulty variant: the device listings keep the sides in line order
LineRowNeverSwapped(line, delim, swapped) ==
    LET s == SplitOnce(line, delim)
    IN  IF s = None THEN None ELSE Some(Row(s[1].prefix, s[1].suffix))

\* the closure of .lines().map(..): split_once(delim).unwrap(), then
\* settings::item(prefix, suffix), or settings::item(suffix, prefix) on the
\* device listings; None stands for the panic of unwrap
LineRow(line, delim, swapped) ==
    LET s == SplitOnce(line, delim)
    IN  IF s = None
        THEN None
        ELSE IF swapped
             THEN Some(Row(s[1].suffix, s[1].prefix))
             ELSE Some(Row(s[1].prefix, s[1].suffix))

\* faulty variant: a line without the delimiter is left out (filter_map)
ParseLinesSkipMalformed(text, delim, swapped) ==
    LET ls == SelectSeq(Lines(text),
                        LAMBDA l : LineRow(l, delim, swapped) # None)
    IN  ListColumn([i \in 1..Len(ls) |-> LineRow(ls[i], delim, swapped)[1]])

\* text.lines().map(closure).collect(), the rows added to a list_column
ParseLines(text, delim, swapped) ==
    LET ls == Lines(text)
    IN  IF \E i \in 1..Len(ls) : LineRow(ls[i], delim, swapped) = None
        THEN Panic
        ELSE ListColumn([i \in 1..Len(ls) |-> LineRow(ls[i], delim, swapped)[1]])

\* one tool page of view
ToolView(field, delim, swapped) ==
    IF field = None
    THEN Title1(FlErrorOccurred)
    ELSE IF StartsWith(field[1], FlErrorOccurred)
         THEN Title1(field[1])
         ELSE ParseLines(field[1], delim, swapped)

ViewMotherboard == ToolView(dmidecode, <<":">>, FALSE)

ViewProcessor == ToolView(lscpu, <<":">>, FALSE)

ViewPCIs == ToolView(lspci, <<":", " ">>, TRUE)

ViewUSBs == ToolView(lsusb, <<":", " ">>, TRUE)

\* the file the Distribution page opens. os_release.etc is what
\* OsRelease::open() yields and os_release.host what from_str of
\* /run/host/os-release yields: None stands for every Err the unwrap panics
\* on (no file at any place open() looks, or a file that does not parse)
OsReleaseFile == IF is_flatpak THEN os_release.host ELSE os_release.etc

ViewDistribution ==
    IF OsReleaseFile = None
    THEN Panic
    ELSE ListColumn(DistributionRows(OsReleaseFile[1]))

\* faulty variant: view opens the file before it looks at the page
ReadsOfViewEveryPage(page) == 1

\* the number of times one call of view opens the OS metadata file

ReadsOfView(page) == IF page = Some("Distribution") THEN 1 ELSE 0

ViewContent ==
    LET page == NavActivePage(nav)
    IN  CASE page = None -> Title1(FlNoPage)
          [] page = Some("Distribution") -> ViewDistribution
          [] page = Some("Motherboard") -> ViewMotherboard
          [] page = Some("Processor") -> ViewProcessor
          [] page = Some("PCIs") -> ViewPCIs
          [] page = Some("USBs") -> ViewUSBs

View ==
    /\ pc = "running"
    /\ os_release_reads + ReadsOfView(NavActivePage(nav)) <= MaxReads
    /\ content' = ViewContent
    /\ pc' = IF ViewContent.kind = "panic" THEN "panicked" ELSE pc
    /\ os_release_reads' = os_release_reads + ReadsOfView(NavActivePage(nav))
    /\ UNCHANGED <<app_vars, env_vars, spawned>>

-----------------------------------------------------------------------------
(* update, on_nav_select *)

Configs == {"default", "updated"}

Urls == {"repository", "commit"}

\* faulty variant: a selection does not call update_title
OnNavSelectStaleTitle(id) ==
    /\ pc = "running"
    /\ nav' = NavActivate(nav, id)
    /\ UNCHANGED <<pc, context_page, show_context, context_title,
                   window_title, config, dmidecode, lscpu, lspci, lsusb,
                   content, env_vars, spawned, os_release_reads>>

\* faulty variant: a selection runs lscpu again
OnNavSelectRefresh(id) ==
    /\ pc = "running"
    /\ nav' = NavActivate(nav, id)
    /\ window_title' = TitleOf(nav')
    /\ Spawn("lscpu")
    /\ lscpu' = Captured(CommandOutput("lscpu")).field
    /\ UNCHANGED <<pc, context_page, show_context, context_title, config,
                   dmidecode, lspci, lsusb, content, env_vars,
                   os_release_reads>>

OnNavSelect(id) ==
    /\ pc = "running"
    /\ nav' = NavActivate(nav, id)
    /\ window_title' = TitleOf(nav')
    /\ UNCHANGED <<pc, context_page, show_context, context_title, config,
                   dmidecode, lscpu, lspci, lsusb, content, env_vars,
                   spawned, os_release_reads>>

\* Message::LaunchUrl: open::that_detached(url); the model's state is untouched
LaunchUrl(url) ==
    /\ pc = "running"
    /\ UNCHANGED vars

\* Message::SubscriptionChannel
SubscriptionChannel ==
    /\ pc = "running"
    /\ UNCHANGED vars

\* Message::ToggleContextPage
ToggleContextPage(cp) ==
    /\ pc = "running"
    /\ IF context_page = cp
       THEN show_context' = ~show_context /\ context_page' = context_page
       ELSE context_page' = cp /\ show_context' = TRUE
    /\ context_title' = FlAbout
    /\ UNCHANGED <<pc, nav, window_title, config, dmidecode, lscpu, lspci,
                   lsusb, content, env_vars, spawned, os_release_reads>>

\* Message::UpdateConfig
UpdateConfig(c) ==
    /\ pc = "running"
    /\ config' = c
    /\ UNCHANGED <<pc, nav, context_page, show_context, context_title,
                   window_title, dmidecode, lscpu, lspci, lsusb, content,
                   env_vars, spawned, os_release_reads>>

-----------------------------------------------------------------------------
(* Specifications *)

SampleFile ==
    [k \in {"ID", "NAME", "VERSION_ID"} |->
        IF k = "NAME" THEN <<"v", " ", "w">> ELSE <<"v">>]

EnvPrograms ==
    {f \in [ProgramNames -> {None} \cup {Some(s) : s \in StdoutSamples}] :
        f["dmidecode"] \in {None, Some(<<"a", ":", " ", "a">>)}}

Init ==
    /\ pc = "dmidecode"
    /\ InitApp
    /\ programs \in EnvPrograms
    /\ is_flatpak = FALSE
    /\ os_release = [etc |-> Some(SampleFile), host |-> None]

Next ==
    \/ SpawnDmidecode
    \/ SpawnLscpu
    \/ SpawnLspci
    \/ SpawnLsusb
    \/ InitReturn
    \/ View
    \/ \E id \in 1..Len(nav.items) : OnNavSelect(id)
    \/ \E url \in Urls : LaunchUrl(url)
    \/ SubscriptionChannel
    \/ ToggleContextPage("About")
    \/ \E c \in Configs : UpdateConfig(c)

Spec == Init /\ [][Next]_vars

-----------------------------------------------------------------------------
(* The program after init, for a given environment *)

\* the command each tool page's field was captured from
CommandOfPage ==
    [p \in ToolPages |->
        CASE p = "Motherboard" -> DmidecodeCommand
          [] p = "Processor" -> "lscpu"
          [] p = "PCIs" -> "lspci"
          [] p = "USBs" -> "lsusb"]

\* the id of a page's navigation entry
IdOfPage(p) == CHOOSE i \in 1..Len(InitNav.items) : InitNav.items[i].page = p

\* the state init returns in the environment progs, with entry id selected
RunningIn(progs, id) ==
    /\ pc = "running"
    /\ programs = progs
    /\ nav = NavActivate(InitNav, id)
    /\ window_title = TitleOf(NavActivate(InitNav, id))
    /\ context_page = "About"
    /\ show_context = FALSE
    /\ context_title = <<>>
    /\ config = "default"
    /\ dmidecode = Captured(CommandOutput(DmidecodeCommand)).field
    /\ lscpu = Captured(CommandOutput("lscpu")).field
    /\ lspci = Captured(CommandOutput("lspci")).field
    /\ lsusb = Captured(CommandOutput("lsusb")).field
    /\ content = NoContent
    /\ spawned = [p \in ToolCommands |-> 1]
    /\ os_release_reads = 0

\* one tool is installed and writes any text of up to MaxLen characters;
\* its page is the selected one
ParseInit ==
    /\ \E p \in ToolPages, text \in Strings(MaxLen) :
        RunningIn([n \in ProgramNames |->
                      IF n = CommandOfPage[p] THEN Some(text) ELSE None],
                  IdOfPage(p))
    /\ is_flatpak = FALSE
    /\ os_release = [etc |-> Some(SampleFile), host |-> None]

ParseNext == View

ParseSpec == ParseInit /\ [][ParseNext]_vars

RECURSIVE KSubsets(_, _)
\* the subsets of S of at most k elements
KSubsets(S, k) ==
    IF k = 0 THEN {{}}
    ELSE KSubsets(S, k - 1)
         \cup {T \cup {x} : T \in KSubsets(S, k - 1), x \in S}

OsReleaseFiles ==
    UNION {[D -> FieldValues] : D \in KSubsets(FileKeys, MaxFields)}

\* no tool is installed, the Distribution page is selected, and the OS
\* metadata file is missing or holds up to MaxFields keys
DistInit ==
    /\ RunningIn([n \in ProgramNames |-> None], IdOfPage("Distribution"))
    /\ is_flatpak \in BOOLEAN
    /\ \E file \in {None} \cup {Some(f) : f \in OsReleaseFiles} :
        os_release = IF is_flatpak
                     THEN [etc |-> None, host |-> file]
                     ELSE [etc |-> file, host |-> None]

DistNext == View

DistSpec == DistInit /\ [][DistNext]_vars

-----------------------------------------------------------------------------
(* Properties *)

DescriptorPages == {"Motherboard", "Processor"}

DevicePages == {"PCIs", "USBs"}

\* the stored field a tool page renders
PageField(p) ==
    CASE p = "Motherboard" -> dmidecode
      [] p = "Processor" -> lscpu
      [] p = "PCIs" -> lspci
      [] p = "USBs" -> lsusb

\* the delimiter the spec gives a tool page
PageDelim(p) == IF p \in DescriptorPages THEN <<":">> ELSE <<":", " ">>

\* the stored field a command's output goes to
FieldOfCommand(c) ==
    CASE c = DmidecodeCommand -> dmidecode
      [] c = "lscpu" -> lscpu
      [] c = "lspci" -> lspci
      [] c = "lsusb" -> lsusb

\* what view returns for the page of a command
ViewOfCommand(c) ==
    CASE c = DmidecodeCommand -> ViewMotherboard
      [] c = "lscpu" -> ViewProcessor
      [] c = "lspci" -> ViewPCIs
      [] c = "lsusb" -> ViewUSBs

\* the init step that spawns a command, and the step after it
StepOfCommand(c) == IF c = DmidecodeCommand THEN "dmidecode" ELSE c

StepAfter(c) ==
    CASE c = DmidecodeCommand -> "lscpu"
      [] c = "lscpu" -> "lspci"
      [] c = "lspci" -> "lsusb"
      [] c = "lsusb" -> "update_title"

\* view has rendered tool page p, whose tool was captured successfully
RenderedCaptured(p) ==
    /\ NavActivePage(nav) = Some(p)
    /\ content # NoContent
    /\ programs[CommandOfPage[p]] # None
    /\ PageField(p) = programs[CommandOfPage[p]]

NonEmptyLines(text) == SelectSeq(Lines(text), LAMBDA l : l # <<>>)

RECURSIVE TrimStart(_)
TrimStart(s) ==
    IF s # <<>> /\ Head(s) = " " THEN TrimStart(Tail(s)) ELSE s

RECURSIVE TrimEnd(_)
TrimEnd(s) ==
    IF s # <<>> /\ s[Len(s)] = " " THEN TrimEnd(SubSeq(s, 1, Len(s) - 1)) ELSE s

Trim(s) == TrimEnd(TrimStart(s))

\* C1: a successfully captured output whose non-empty lines all hold the
\* page's delimiter (and which does not begin with the error phrase) renders
\* as exactly one row per non-empty line; empty lines are skipped and cause
\* no failure.
C1_OneRowPerNonEmptyLine ==
    \A p \in ToolPages :
        ( /\ RenderedCaptured(p)
          /\ ~StartsWith(PageField(p)[1], FlErrorOccurred)
          /\ \A i \in 1..Len(NonEmptyLines(PageField(p)[1])) :
                Occurrences(NonEmptyLines(PageField(p)[1])[i], PageDelim(p)) # {} )
        => /\ content.kind = "list"
           /\ Len(content.rows) = Len(NonEmptyLines(PageField(p)[1]))

\* C2: a tool that fails to spawn does not stop init: the step stores the
\* error placeholder with the error's message and goes on to the next tool,
\* touching no other tool's field; once init has returned, the failed tool's
\* page is the one error row with that message, and every other tool was
\* invoked once and holds its own output.
C2_SpawnFailureIsolated ==
    /\ [][\A c \in ToolCommands :
            (pc = StepOfCommand(c) /\ programs[c] = None)
            => /\ pc' = StepAfter(c)
               /\ FieldOfCommand(c)' = Some(<<"E", ":", " ">> \o NotFoundText)
               /\ \A u \in ToolCommands \ {c} :
                    FieldOfCommand(u)' = FieldOfCommand(u)]_vars
    /\ [](pc = "running" =>
            \A c \in ToolCommands :
                programs[c] = None
                => /\ ViewOfCommand(c) = Title1(<<"E", ":", " ">> \o NotFoundText)
                   /\ \A u \in ToolCommands \ {c} :
                        /\ spawned[u] = 1
                        /\ programs[u] # None => FieldOfCommand(u) = programs[u])

\* C2 witness: lscpu failed to spawn, lspci was captured, init returned and
\* the Processor page was rendered as the error row.
C2_Witness ==
    /\ pc = "running"
    /\ programs["lscpu"] = None
    /\ programs["lspci"] # None
    /\ NavActivePage(nav) = Some("Processor")
    /\ content = Title1(<<"E", ":", " ">> \o NotFoundText)

\* C3: a tool that spawns but writes bytes that are not valid UTF-8 counts
\* as a failed capture: the step stores an error placeholder and init goes
\* on; the process does not terminate.
C3_InvalidUtf8IsCaptureFailure ==
    [][\A c \in ToolCommands :
          ( /\ pc = StepOfCommand(c)
            /\ programs[c] # None
            /\ \E i \in 1..Len(programs[c][1]) : programs[c][1][i] = InvalidByte )
          => /\ pc' = StepAfter(c)
             /\ FieldOfCommand(c)' # None
             /\ StartsWith(FieldOfCommand(c)'[1], FlErrorOccurred)]_vars

\* C4: once init has returned each of the four tools has been invoked
\* exactly once, and no later step (selection, render, context drawer,
\* config, URL) invokes a tool or changes a stored output.
C4_ToolsInvokedOnceInInit ==
    /\ [](pc = "running" => \A c \in ToolCommands : spawned[c] = 1)
    /\ [][pc = "running" =>
            UNCHANGED <<spawned, dmidecode, lscpu, lspci, lsusb>>]_vars

\* C4 witness: after init a page was selected and rendered as rows, the
\* context drawer was opened and the config was updated.
C4_Witness ==
    /\ pc = "running"
    /\ NavActivePage(nav) = Some("USBs")
    /\ content.kind = "list"
    /\ show_context
    /\ config = "updated"

\* C5: when init completes, the active page is Distribution.
C5_InitialPageIsDistribution ==
    [][(pc = "update_title" /\ pc' = "running")
        => NavActivePage(nav') = Some("Distribution")]_vars

\* the Distribution page has been rendered from a file that could be read
RenderedDistribution ==
    /\ NavActivePage(nav) = Some("Distribution")
    /\ content.kind = "list"
    /\ OsReleaseFile # None

\* C6: no row of the Distribution page belongs to a field that is absent
\* from the metadata file.
C6_AbsentFieldNoRow ==
    RenderedDistribution =>
        \A i \in 1..Len(content.rows) :
            KeyOfLabel[content.rows[i].label] \in DOMAIN OsReleaseFile[1]

\* C7: no row of the Distribution page belongs to a field that is present
\* in the metadata file with an empty value.
C7_EmptyFieldNoRow ==
    RenderedDistribution =>
        \A i \in 1..Len(content.rows) :
            KeyOfLabel[content.rows[i].label] \in DOMAIN OsReleaseFile[1]
            => OsReleaseFile[1][KeyOfLabel[content.rows[i].label]] # <<>>

\* C8 as stated: on every tool page, for a line that holds the delimiter
\* exactly once, label, delimiter and value in this order give the line back,
\* up to surrounding whitespace.
C8_LabelDelimValueIsLine ==
    \A p \in ToolPages :
        (RenderedCaptured(p) /\ content.kind = "list")
        => /\ Len(content.rows) = Len(Lines(PageField(p)[1]))
           /\ \A i \in 1..Len(content.rows) :
                Cardinality(Occurrences(Lines(PageField(p)[1])[i], PageDelim(p))) = 1
                => Trim(content.rows[i].label \o PageDelim(p) \o content.rows[i].value)
                   = Trim(Lines(PageField(p)[1])[i])

\* C8 amended: for a line that holds the delimiter exactly once, the row
\* gives the line back exactly: label ":" value on the Motherboard and
\* Processor pages, value ": " label (the sides are swapped) on the PCI and
\* USB pages.
C8_RowReconstructsLine ==
    \A p \in ToolPages :
        (RenderedCaptured(p) /\ content.kind = "list")
        => /\ Len(content.rows) = Len(Lines(PageField(p)[1]))
           /\ \A i \in 1..Len(content.rows) :
                Cardinality(Occurrences(Lines(PageField(p)[1])[i], PageDelim(p))) = 1
                => IF p \in DescriptorPages
                   THEN content.rows[i].label \o <<":">> \o content.rows[i].value
                        = Lines(PageField(p)[1])[i]
                   ELSE content.rows[i].value \o <<":", " ">> \o content.rows[i].label
                        = Lines(PageField(p)[1])[i]

\* C8 witness: a device listing was rendered with a row whose sides differ,
\* from a line that holds ": " exactly once.
C8_Witness ==
    /\ RenderedCaptured("PCIs")
    /\ content.kind = "list"
    /\ \E i \in 1..Len(content.rows) :
        /\ Cardinality(Occurrences(Lines(lspci[1])[i], <<":", " ">>)) = 1
        /\ content.rows[i].label # content.rows[i].value
        /\ content.rows[i].label # <<>>

\* C9 as stated: the metadata file has been read exactly once when init
\* returns, and no step after init (selection, render) reads it again.
C9_ReadOnceAtStartup ==
    /\ [](pc = "running" => os_release_reads = 1)
    /\ [][pc = "running" => os_release_reads' = os_release_reads]_vars

\* C9 amended: init does not read the metadata file and nothing caches it:
\* every render of the Distribution page reads it once more; no other step
\* (selection, render of a tool page, context drawer, config, URL) reads it,
\* and no step after init spawns a process.
C9_ReadOnEveryDistributionRender ==
    /\ [](pc \notin {"running", "panicked"} => os_release_reads = 0)
    /\ [][IF View /\ NavActivePage(nav) = Some("Distribution")
          THEN os_release_reads' = os_release_reads + 1
          ELSE os_release_reads' = os_release_reads]_vars
    /\ [][pc = "running" => spawned' = spawned]_vars

\* C9 witness: the Distribution page was rendered twice (two reads), then
\* the Processor page was selected and rendered.
C9_Witness ==
    /\ pc = "running"
    /\ os_release_reads = 2
    /\ NavActivePage(nav) = Some("Processor")
    /\ content = ViewProcessor
    /\ content # ViewDistribution

\* C10: whenever the dmidecode binary is installed, init's dmidecode step
\* spawns it and stores its stdout.
C10_DmidecodeCapturedWhenInstalled ==
    (pc # "dmidecode" /\ programs["dmidecode"] # None)
    => dmidecode = programs["dmidecode"]

\* C11: on the PCI and USB pages each line is split at the first ": " and
\* the sides are swapped: the label is all the text after that first ": "
\* (later ": " included), the value all the text before it.
C11_DeviceRowSplitsAtFirstDelim ==
    \A p \in DevicePages :
        (RenderedCaptured(p) /\ content.kind = "list")
        => /\ Len(content.rows) = Len(Lines(PageField(p)[1]))
           /\ \A i \in 1..Len(content.rows) :
                \E k \in 1..Len(Lines(PageField(p)[1])[i]) :
                    LET line == Lines(PageField(p)[1])[i]
                    IN  /\ k + 1 <= Len(line)
                        /\ line[k] = ":" /\ line[k + 1] = " "
                        /\ \A j \in 1..(k - 1) : ~(line[j] = ":" /\ line[j + 1] = " ")
                        /\ content.rows[i].value = SubSeq(line, 1, k - 1)
                        /\ content.rows[i].label = SubSeq(line, k + 2, Len(line))

\* C11 witness: a device listing was rendered from a line that holds ": "
\* twice, so the label holds the second one.
C11_Witness ==
    /\ RenderedCaptured("USBs")
    /\ content.kind = "list"
    /\ \E i \in 1..Len(content.rows) :
        /\ Cardinality(Occurrences(Lines(lsusb[1])[i], <<":", " ">>)) = 2
        /\ Occurrences(content.rows[i].label, <<":", " ">>) # {}
        /\ content.rows[i].value # <<>>

\* C12: when a line of a successfully captured output lacks the page's
\* delimiter, the render of that page produces no rows at all, not even for
\* the well-formed lines around it: view panics (or, for a text that begins
\* with the error phrase, never starts to parse).
C12_MalformedLineNoRows ==
    \A p \in ToolPages :
        ( /\ RenderedCaptured(p)
          /\ \E i \in 1..Len(Lines(PageField(p)[1])) :
                Occurrences(Lines(PageField(p)[1])[i], PageDelim(p)) = {} )
        => /\ content.kind # "list"
           /\ content.rows = <<>>
           /\ ~StartsWith(PageField(p)[1], <<"E">>) => content.kind = "panic"

\* C12 witness: the Processor page was rendered from three lines of which
\* only the middle one lacks ":", and the render panicked.
C12_Witness ==
    /\ RenderedCaptured("Processor")
    /\ content.kind = "panic"
    /\ Len(Lines(lscpu[1])) = 3
    /\ Occurrences(Lines(lscpu[1])[1], <<":">>) # {}
    /\ Occurrences(Lines(lscpu[1])[2], <<":">>) = {}
    /\ Lines(lscpu[1])[2] # <<>>
    /\ Occurrences(Lines(lscpu[1])[3], <<":">>) # {}

\* C13: after init exactly one page is active; selecting a navigation entry
\* makes that entry's page the active one and sets the window title to the
\* application title followed by the entry's text; a context-drawer toggle,
\* a config update, a URL launch, the subscription message and a render
\* leave the active page as it is.
C13_SelectionSetsPageAndTitle ==
    /\ [](pc = "running" =>
            /\ nav.active # None
            /\ Cardinality({i \in 1..Len(nav.items) : nav.active = Some(i)}) = 1
            /\ NavActivePage(nav) \in {Some(p) : p \in Pages})
    /\ [][\A id \in 1..Len(nav.items) :
            OnNavSelect(id)
            => /\ nav'.active = Some(id)
               /\ NavActivePage(nav') = Some(nav.items[id].page)
               /\ window_title' = <<"app-title", " - ">> \o nav.items[id].text]_vars
    /\ [][( \/ ToggleContextPage("About")
            \/ \E c \in Configs : UpdateConfig(c)
            \/ \E url \in Urls : LaunchUrl(url)
            \/ SubscriptionChannel
            \/ View )
          => nav' = nav]_vars

\* C13 witness: the PCI entry was selected and rendered, after the context
\* drawer was opened and the config updated; the title names the entry.
C13_Witness ==
    /\ pc = "running"
    /\ NavActivePage(nav) = Some("PCIs")
    /\ window_title = <<"app-title", " - ", "pci-devices">>
    /\ content = ViewPCIs
    /\ content.kind = "list"
    /\ show_context
    /\ config = "updated"

\* C14: a render of a tool page shows the error row if and only if the
\* capture of that page's tool failed: a captured output is parsed (rows, or
\* the parser's panic) whatever it begins with, and a stored placeholder is
\* shown as the error row.
C14_ErrorRowIffCaptureFailed ==
    [][View =>
        \A p \in ToolPages :
            NavActivePage(nav) = Some(p)
            => (content'.kind = "title1"
                <=> ~CommandOutput(CommandOfPage[p]).is_ok)]_vars

====
